---- MODULE Spec2Model ----
(***************************************************************************)
(* darklua: the rule configuration codec (src/rules/mod.rs) and the        *)
(* rendering of LocalAssignStatement (src/nodes/statements/local_assign.rs)*)
(*                                                                         *)
(* Two specifications share the variables:                                 *)
(*   Spec     the codec: decoding a rule-list document entry by entry and  *)
(*            key by key, the default rule stack, encoding rule instances  *)
(*            and decoding the encoded documents again;                    *)
(*   SpecLua  the life of one LocalAssignStatement: construction, the      *)
(*            builder and mutator methods, and to_lua.                     *)
(***************************************************************************)
EXTENDS Integers, Sequences, FiniteSets, TLC

VARIABLES
    source,      \* where the rule stack comes from: "none", "document", "default", "instance"
    pc,          \* position of the codec: "idle", "seq", "any", "map", "from_str", "configure", "done", "encoded"
    n,           \* number of entries of the rule-list document being decoded
    docs,        \* the entries of the rule-list document read so far (the last one is being decoded)
    pos,         \* visit_map: number of entries of the current map already scanned
    rule_name,   \* visit_map: let mut rule_name = None
    properties,  \* visit_map: let mut properties = HashMap::new()
    rule,        \* visit_map: let mut rule, once from_str succeeded
    configured,  \* number of configure calls made while decoding the current entry
    rules,       \* the Vec<Box<dyn Rule>> built so far
    result,      \* what the caller receives: Ok(rules) or Err(error)
    encoded,     \* documents produced by serialize
    replay,      \* TRUE while the documents decoded are the ones in encoded
    orig,        \* the instances that were serialized into encoded
    built,       \* LocalAssignStatement: a statement exists
    variables,   \* LocalAssignStatement.variables
    values,      \* LocalAssignStatement.values
    output,      \* LuaGenerator output of the last to_lua, as a sequence of tokens
    op           \* the last LocalAssignStatement operation called

codecVars == <<source, pc, n, docs, pos, rule_name, properties, rule, configured, rules, result,
               encoded, replay, orig>>
luaVars == <<built, variables, values, output, op>>
vars == <<source, pc, n, docs, pos, rule_name, properties, rule, configured, rules, result,
          encoded, replay, orig, built, variables, values, output, op>>

(***************************************************************************)
(* Bounds                                                                  *)
(***************************************************************************)
MaxDocs == 3        \* entries of a rule-list document
MaxEntries == 3     \* entries of one rule object (map document)
MaxVariables == 3   \* variables of a LocalAssignStatement
MaxValues == 2      \* values of a LocalAssignStatement

(***************************************************************************)
(* Documents: what the Deserializer hands to the visitor                   *)
(***************************************************************************)
REMOVE_EMPTY_DO_RULE_NAME == "remove_empty_do"

\* text values met in documents: the registered name and one that is not registered
Names == {REMOVE_EMPTY_DO_RULE_NAME, "not_a_real_rule"}

\* keys met in map documents
Keys == {"rule", "a", "b"}

\* a document value: text, unsigned integer, or something else (a boolean)
Text(s) == [kind |-> "text", s |-> s, n |-> 0]
UInt(i) == [kind |-> "uint", s |-> "", n |-> i]
Bool == [kind |-> "bool", s |-> "", n |-> 0]
DocValues == {Text(s) : s \in Names} \cup {UInt(1), Bool}

Entry(k, v) == [key |-> k, val |-> v]
Entries == {Entry(k, v) : k \in Keys, v \in DocValues}

\* a rule document: a bare text, a map (its entries in document order, with the
\* length the serializer declared), or any other kind of value
StrDoc(s) == [kind |-> "str", s |-> s, len |-> 0, entries |-> <<>>]
MapDoc(es) == [kind |-> "map", s |-> "", len |-> Len(es), entries |-> es]
OtherDoc == [kind |-> "other", s |-> "", len |-> 0, entries |-> <<>>]
Docs ==
    {StrDoc(s) : s \in Names} \cup {OtherDoc}
    \cup {MapDoc(es) : es \in UNION {[1..k -> Entries] : k \in 0..MaxEntries}}

(***************************************************************************)
(* RulePropertyValue, RuleProperties, RuleConfigurationError               *)
(***************************************************************************)
String(s) == [variant |-> "String", s |-> s, n |-> 0]
Usize(i) == [variant |-> "Usize", s |-> "", n |-> i]

\* #[serde(untagged)] Deserialize: the first variant the value fits, else an error
DeserializeValue(v) ==
    IF v.kind = "text" THEN [ok |-> TRUE, value |-> String(v.s)]
    ELSE IF v.kind = "uint" THEN [ok |-> TRUE, value |-> Usize(v.n)]
    ELSE [ok |-> FALSE, value |-> String("")]

\* #[serde(untagged)] Serialize: the variant's content, without a tag
SerializeValue(p) ==
    IF p.variant = "String" THEN Text(p.s) ELSE UInt(p.n)

\* HashMap<String, RulePropertyValue>: a function from its keys
EmptyProperties == [k \in {} |-> String("")]
Insert(props, k, v) == [x \in DOMAIN props \cup {k} |-> IF x = k THEN v ELSE props[x]]

UnexpectedProperty(p) == [variant |-> "UnexpectedProperty", property |-> p]
StringExpected(p) == [variant |-> "StringExpected", property |-> p]
UsizeExpected(p) == [variant |-> "UsizeExpected", property |-> p]

\* impl fmt::Display for RuleConfigurationError: the message, as its pieces
Display(e) ==
    IF e.variant = "UnexpectedProperty" THEN <<"unexpected field '", e.property, "'">>
    ELSE IF e.variant = "StringExpected"
        THEN <<"string value expected for field '", e.property, "'">>
    ELSE <<"unsigned integer expected for field '", e.property, "'">>

(***************************************************************************)
(* Errors of the deserializer (serde::de::Error)                           *)
(***************************************************************************)
NoError == [ctor |-> "none", msg |-> <<>>]
Custom(msg) == [ctor |-> "custom", msg |-> msg]
DuplicateField(f) == [ctor |-> "duplicate_field", msg |-> <<"duplicate field ", f>>]
MissingField(f) == [ctor |-> "missing_field", msg |-> <<"missing field ", f>>]
InvalidType(exp) == [ctor |-> "invalid_type", msg |-> <<"invalid type, expected ", exp>>]

Ok(v) == [tag |-> "Ok", rules |-> v, error |-> NoError]
Err(e) == [tag |-> "Err", rules |-> <<>>, error |-> e]
NoResult == [tag |-> "none", rules |-> <<>>, error |-> NoError]

(***************************************************************************)
(* Rule instances and the registry                                         *)
(***************************************************************************)
\* a Box<dyn Rule>, by what get_name() and serialize_to_properties() answer
RuleInstance(kind, name, props) == [kind |-> kind, name |-> name, props |-> props]
NoRule == RuleInstance("none", "", EmptyProperties)

\* RemoveEmptyDo::default()
RemoveEmptyDoDefault == RuleInstance("RemoveEmptyDo", REMOVE_EMPTY_DO_RULE_NAME, EmptyProperties)

get_name(r) == r.name
serialize_to_properties(r) == r.props

\* RemoveEmptyDo::configure: the rule has no property, every key is unexpected;
\* the key reported is the first one the HashMap iterates, which is any of them
configure(r, props) ==
    IF DOMAIN props = {} THEN {[ok |-> TRUE, rule |-> r, error |-> UnexpectedProperty("")]}
    ELSE {[ok |-> FALSE, rule |-> r, error |-> UnexpectedProperty(k)] : k \in DOMAIN props}

get_default_rules == <<RemoveEmptyDoDefault>>

\* from_str with a catch-all arm that answers the rule instead of the error
from_str_any(string) ==
    [ok |-> TRUE, rule |-> RemoveEmptyDoDefault, error |-> NoError]

\* from_str matching another text than the name the rule answers to
from_str_typo(string) ==
    IF string = "remove_empty_dos"
        THEN [ok |-> TRUE, rule |-> RemoveEmptyDoDefault, error |-> NoError]
        ELSE [ok |-> FALSE, rule |-> NoRule,
              error |-> Custom(<<"invalid rule name: ", string>>)]

from_str(string) ==
    IF string = REMOVE_EMPTY_DO_RULE_NAME
        THEN [ok |-> TRUE, rule |-> RemoveEmptyDoDefault, error |-> NoError]
        ELSE [ok |-> FALSE, rule |-> NoRule,
              error |-> Custom(<<"invalid rule name: ", string>>)]

(***************************************************************************)
(* impl Serialize for Box<dyn Rule>                                        *)
(***************************************************************************)
\* the orders in which a HashMap with the keys S may be iterated
Orders(S) == {o \in [1..Cardinality(S) -> S] : \A i, j \in 1..Cardinality(S) : i # j => o[i] # o[j]}

\* serialize taking the compact form for one property too
serialize_threshold(r, order) ==
    LET props == serialize_to_properties(r)
        property_count == Cardinality(DOMAIN props)
        name == get_name(r)
    IN  IF property_count <= 1
            THEN StrDoc(name)
            ELSE [kind |-> "map", s |-> "", len |-> property_count + 1,
                  entries |-> <<Entry("rule", Text(name))>>
                      \o [i \in 1..Len(order) |-> Entry(order[i], SerializeValue(props[order[i]]))]]

\* serialize, order being the order in which the properties are iterated
serialize(r, order) ==
    LET props == serialize_to_properties(r)
        property_count == Cardinality(DOMAIN props)
        name == get_name(r)
    IN  IF property_count = 0
            THEN StrDoc(name)
            ELSE [kind |-> "map", s |-> "", len |-> property_count + 1,
                  entries |-> <<Entry("rule", Text(name))>>
                      \o [i \in 1..Len(order) |-> Entry(order[i], SerializeValue(props[order[i]]))]]

\* the documents serialize may produce for r
Serialized(r) == {serialize(r, o) : o \in Orders(DOMAIN serialize_to_properties(r))}

\* implementors of the Rule trait other than the registered ones, as inputs of serialize
PropertyValues == {String(s) : s \in Names} \cup {Usize(1)}
PropertyMaps == UNION {[S -> PropertyValues] : S \in SUBSET Keys}
DynRules == {RuleInstance("dyn", nm, props) : nm \in Names, props \in PropertyMaps}

(***************************************************************************)
(* Decoding a rule list: the sequence of rule documents                    *)
(***************************************************************************)
None == [some |-> FALSE, v |-> ""]
Some(v) == [some |-> TRUE, v |-> v]

Init ==
    /\ source = "none"
    /\ pc = "idle"
    /\ n = 0
    /\ docs = <<>>
    /\ pos = 0
    /\ rule_name = None
    /\ properties = EmptyProperties
    /\ rule = NoRule
    /\ configured = 0
    /\ rules = <<>>
    /\ result = NoResult
    /\ encoded = <<>>
    /\ replay = FALSE
    /\ orig = <<>>
    /\ built = FALSE
    /\ variables = <<>>
    /\ values = <<>>
    /\ output = <<>>
    /\ op = "none"

\* a rule-list document with k entries is handed to the decoder
BeginDecode ==
    /\ pc = "idle"
    /\ \E k \in 0..MaxDocs : n' = k
    /\ source' = "document"
    /\ pc' = "seq"
    /\ UNCHANGED <<docs, pos, rule_name, properties, rule, configured, rules, result,
                   encoded, replay, orig>>
    /\ UNCHANGED luaVars

\* no document is given: the default rule stack is the pipeline
UseDefaultRules ==
    /\ pc = "idle"
    /\ source' = "default"
    /\ rules' = get_default_rules
    /\ result' = Ok(get_default_rules)
    /\ pc' = "done"
    /\ UNCHANGED <<n, docs, pos, rule_name, properties, rule, configured, encoded, replay, orig>>
    /\ UNCHANGED luaVars

\* the decoded instance r is pushed and the next element is asked for
Push(r) ==
    /\ rules' = Append(rules, r)
    /\ pc' = "seq"
    /\ UNCHANGED result

\* the error e ends the decoding of the whole list: the caller receives it. The Vec
\* built so far is dropped; the variable keeps it to be related to the entries read
Fail(e) ==
    /\ result' = Err(e)
    /\ pc' = "done"
    /\ UNCHANGED rules

\* the next entry of the list is read and handed to Box<dyn Rule>::deserialize
NextElement ==
    /\ pc = "seq"
    /\ Len(docs) < n
    /\ \E d \in IF replay THEN {encoded[Len(docs) + 1]} ELSE Docs : docs' = Append(docs, d)
    /\ pc' = "any"
    /\ pos' = 0
    /\ rule_name' = None
    /\ properties' = EmptyProperties
    /\ rule' = NoRule
    /\ configured' = 0
    /\ UNCHANGED <<source, n, rules, result, encoded, replay, orig>>
    /\ UNCHANGED luaVars

\* the list is exhausted: the caller receives the instances, in order
SeqEnd ==
    /\ pc = "seq"
    /\ Len(docs) = n
    /\ result' = Ok(rules)
    /\ pc' = "done"
    /\ UNCHANGED <<source, n, docs, pos, rule_name, properties, rule, configured, rules,
                   encoded, replay, orig>>
    /\ UNCHANGED luaVars

(***************************************************************************)
(* impl Deserialize for Box<dyn Rule>: the visitor StringOrStruct          *)
(***************************************************************************)
doc == docs[Len(docs)]

\* visit_str leaving out a name that is not registered instead of failing
visit_str_lenient(value) ==
    LET r == from_str(value)
    IN  IF r.ok THEN Push(r.rule) ELSE pc' = "seq" /\ UNCHANGED <<rules, result>>

\* visit_str: the registry lookup, its error made a custom error
visit_str(value) ==
    LET r == from_str(value)
    IN  IF r.ok THEN Push(r.rule) ELSE Fail(r.error)

\* a visitor without visit_str: a text document is an invalid type
deserialize_str_unsupported ==
    /\ pc = "any"
    /\ doc.kind = "str"
    /\ Fail(InvalidType("rule name or rule object"))
    /\ UNCHANGED <<source, n, docs, pos, rule_name, properties, rule, configured,
                   encoded, replay, orig>>
    /\ UNCHANGED luaVars

\* deserialize_any on a text document
deserialize_str ==
    /\ pc = "any"
    /\ doc.kind = "str"
    /\ visit_str(doc.s)
    /\ UNCHANGED <<source, n, docs, pos, rule_name, properties, rule, configured,
                   encoded, replay, orig>>
    /\ UNCHANGED luaVars

\* deserialize_any on a map document: visit_map starts
deserialize_map ==
    /\ pc = "any"
    /\ doc.kind = "map"
    /\ pc' = "map"
    /\ UNCHANGED <<source, n, docs, pos, rule_name, properties, rule, configured, rules,
                   result, encoded, replay, orig>>
    /\ UNCHANGED luaVars

\* deserialize_any on any other document: the visitor has no method for it
deserialize_other ==
    /\ pc = "any"
    /\ doc.kind \notin {"str", "map"}
    /\ Fail(InvalidType("rule name or rule object"))
    /\ UNCHANGED <<source, n, docs, pos, rule_name, properties, rule, configured,
                   encoded, replay, orig>>
    /\ UNCHANGED luaVars

\* the key "rule" without the is_none test: a later "rule" replaces the earlier one
visit_rule_key_replace(e) ==
    IF e.val.kind = "text"
        THEN /\ rule_name' = Some(e.val.s)
             /\ pos' = pos + 1
             /\ UNCHANGED <<pc, rules, result, properties>>
    ELSE /\ Fail(InvalidType("a string"))
         /\ UNCHANGED <<pos, rule_name, properties>>

\* visit_map, one turn of the while loop: the key "rule"
visit_rule_key(e) ==
    IF rule_name.some
        THEN /\ Fail(DuplicateField("rule"))
             /\ UNCHANGED <<pos, rule_name, properties>>
    ELSE IF e.val.kind = "text"
        THEN /\ rule_name' = Some(e.val.s)
             /\ pos' = pos + 1
             /\ UNCHANGED <<pc, rules, result, properties>>
    ELSE /\ Fail(InvalidType("a string"))
         /\ UNCHANGED <<pos, rule_name, properties>>

\* any other key without the test of what insert returns: the later value wins
visit_property_key_overwrite(e) ==
    LET value == DeserializeValue(e.val)
    IN  IF ~value.ok
            THEN /\ Fail(Custom(<<"data did not match any variant of untagged enum RulePropertyValue">>))
                 /\ UNCHANGED <<pos, rule_name, properties>>
        ELSE /\ properties' = Insert(properties, e.key, value.value)
             /\ pos' = pos + 1
             /\ UNCHANGED <<pc, rules, result, rule_name>>

\* visit_map, one turn of the while loop: any other key
visit_property_key(e) ==
    LET value == DeserializeValue(e.val)
    IN  IF ~value.ok
            THEN /\ Fail(Custom(<<"data did not match any variant of untagged enum RulePropertyValue">>))
                 /\ UNCHANGED <<pos, rule_name, properties>>
        ELSE IF e.key \in DOMAIN properties
            THEN /\ properties' = Insert(properties, e.key, value.value)
                 /\ Fail(Custom(<<"duplicate field ", e.key, " in rule object">>))
                 /\ UNCHANGED <<pos, rule_name>>
        ELSE /\ properties' = Insert(properties, e.key, value.value)
             /\ pos' = pos + 1
             /\ UNCHANGED <<pc, rules, result, rule_name>>

\* visit_map: map.next_key() yields a key
visit_map_key ==
    /\ pc = "map"
    /\ pos < Len(doc.entries)
    /\ LET e == doc.entries[pos + 1]
       IN  IF e.key = "rule" THEN visit_rule_key(e) ELSE visit_property_key(e)
    /\ UNCHANGED <<source, n, docs, rule, configured, encoded, replay, orig>>
    /\ UNCHANGED luaVars

\* visit_map: map.next_key() yields None, the loop ends
visit_map_end ==
    /\ pc = "map"
    /\ pos = Len(doc.entries)
    /\ IF rule_name.some
           THEN pc' = "from_str" /\ UNCHANGED <<rules, result>>
           ELSE Fail(MissingField("rule"))
    /\ UNCHANGED <<source, n, docs, pos, rule_name, properties, rule, configured,
                   encoded, replay, orig>>
    /\ UNCHANGED luaVars

\* visit_map: the registry lookup by the gathered name
visit_map_from_str ==
    /\ pc = "from_str"
    /\ LET r == from_str(rule_name.v)
       IN  IF r.ok
               THEN rule' = r.rule /\ pc' = "configure" /\ UNCHANGED <<rules, result>>
               ELSE Fail(r.error) /\ UNCHANGED rule
    /\ UNCHANGED <<source, n, docs, pos, rule_name, properties, configured,
                   encoded, replay, orig>>
    /\ UNCHANGED luaVars

\* configure called with its result dropped
visit_map_configure_ignored ==
    /\ pc = "configure"
    /\ configured' = configured + 1
    /\ \E c \in configure(rule, properties) : rule' = c.rule /\ Push(c.rule)
    /\ UNCHANGED <<source, n, docs, pos, rule_name, properties, encoded, replay, orig>>
    /\ UNCHANGED luaVars

\* visit_map: rule.configure(properties), then Ok(rule) or its error made a custom error
visit_map_configure ==
    /\ pc = "configure"
    /\ configured' = configured + 1
    /\ \E c \in configure(rule, properties) :
           IF c.ok
               THEN rule' = c.rule /\ Push(c.rule)
               ELSE Fail(Custom(Display(c.error))) /\ UNCHANGED rule
    /\ UNCHANGED <<source, n, docs, pos, rule_name, properties, encoded, replay, orig>>
    /\ UNCHANGED luaVars

(***************************************************************************)
(* Encoding, and decoding what was encoded                                 *)
(***************************************************************************)
\* an instance of any implementor of Rule is serialized
SerializeInstance ==
    /\ pc = "idle"
    /\ \E r \in DynRules \cup {RemoveEmptyDoDefault} :
           /\ orig' = <<r>>
           /\ encoded' \in {<<d>> : d \in Serialized(r)}
    /\ source' = "instance"
    /\ pc' = "encoded"
    /\ UNCHANGED <<n, docs, pos, rule_name, properties, rule, configured, rules, result, replay>>
    /\ UNCHANGED luaVars

\* the rule stack obtained (decoded or default) is serialized, element by element
SerializeRules ==
    /\ pc = "done"
    /\ result.tag = "Ok"
    /\ ~replay
    /\ orig' = result.rules
    /\ encoded' \in {e \in [1..Len(result.rules) -> UNION {Serialized(r) : r \in {result.rules[i] : i \in 1..Len(result.rules)}}] :
                         \A i \in 1..Len(result.rules) : e[i] \in Serialized(result.rules[i])}
    /\ pc' = "encoded"
    /\ UNCHANGED <<source, n, docs, pos, rule_name, properties, rule, configured, rules, result, replay>>
    /\ UNCHANGED luaVars

\* the documents produced by serialize are decoded
Redecode ==
    /\ pc = "encoded"
    /\ ~replay
    /\ replay' = TRUE
    /\ n' = Len(encoded)
    /\ docs' = <<>>
    /\ rules' = <<>>
    /\ result' = NoResult
    /\ pos' = 0
    /\ rule_name' = None
    /\ properties' = EmptyProperties
    /\ rule' = NoRule
    /\ configured' = 0
    /\ pc' = "seq"
    /\ UNCHANGED <<source, encoded, orig>>
    /\ UNCHANGED luaVars

Next ==
    \/ BeginDecode
    \/ UseDefaultRules
    \/ NextElement
    \/ SeqEnd
    \/ deserialize_str
    \/ deserialize_map
    \/ deserialize_other
    \/ visit_map_key
    \/ visit_map_end
    \/ visit_map_from_str
    \/ visit_map_configure
    \/ SerializeInstance
    \/ SerializeRules
    \/ Redecode

Spec == Init /\ [][Next]_vars

(***************************************************************************)
(* LuaGenerator and Expression (lua_generator.rs, nodes/expressions)       *)
(***************************************************************************)
\* variable names and value expressions given to the statement
VarNames == {"var", "a", "b"}
Expressions == {"False", "True"}
SeqsUpTo(S, k) == UNION {[1..i -> S] : i \in 0..k}

\* a token that would merge with a neighbouring word if no space separated them
IsWord(t) == t \notin {",", "=", " "}

\* push_str: a space is pushed first when the content would merge with what precedes it
push_str(out, content) ==
    IF out # <<>> /\ IsWord(out[Len(out)]) /\ IsWord(content)
        THEN out \o <<" ", content>>
        ELSE Append(out, content)

push_char(out, character) == push_str(out, character)

\* for_each_and_between, for_each pushing the text of an element and between pushing
\* the separator: each element, the separator between two consecutive ones
for_each_and_between(out, texts, separator) ==
    LET go[i \in 0..Len(texts)] ==
            IF i = 0 THEN out
            ELSE IF i = 1 THEN push_str(go[0], texts[1])
            ELSE push_str(push_char(go[i - 1], separator), texts[i])
    IN  go[Len(texts)]

\* what Expression::to_lua pushes for the literals false and true
expression_to_lua(e) == IF e = "False" THEN "false" ELSE "true"

(***************************************************************************)
(* LocalAssignStatement                                                    *)
(***************************************************************************)
new(vs, es) == [variables |-> vs, values |-> es]

from_variable(variable) == [variables |-> <<variable>>, values |-> <<>>]

with_variable(self_, variable) ==
    [variables |-> Append(self_.variables, variable), values |-> self_.values]

with_value(self_, value) ==
    [variables |-> self_.variables, values |-> Append(self_.values, value)]

\* to_lua pushing the assignment sign whatever the number of values
to_lua_always_assign(self_) ==
    LET g1 == push_str(<<>>, "local")
        g2 == for_each_and_between(g1, self_.variables, ",")
        g3 == push_char(g2, "=")
    IN  for_each_and_between(g3, [i \in 1..Len(self_.values) |-> expression_to_lua(self_.values[i])], ",")

\* impl ToLua for LocalAssignStatement, on a new generator
to_lua(self_) ==
    LET g1 == push_str(<<>>, "local")
        g2 == for_each_and_between(g1, self_.variables, ",")
        g3 == IF Len(self_.values) > 0 THEN push_char(g2, "=") ELSE g2
    IN  for_each_and_between(g3, [i \in 1..Len(self_.values) |-> expression_to_lua(self_.values[i])], ",")

self == [variables |-> variables, values |-> values]

\* the statement becomes s; a rendered text is kept only while to_lua is the last
\* operation
Becomes(s) ==
    /\ built' = TRUE
    /\ variables' = s.variables
    /\ values' = s.values
    /\ output' = <<>>
    /\ UNCHANGED codecVars

New ==
    /\ op' = "new"
    /\ \E vs \in SeqsUpTo(VarNames, MaxVariables), es \in SeqsUpTo(Expressions, MaxValues) :
           Becomes(new(vs, es))

FromVariable ==
    /\ op' = "from_variable"
    /\ \E v \in VarNames : Becomes(from_variable(v))

WithVariable ==
    /\ built
    /\ Len(variables) < MaxVariables
    /\ op' = "with_variable"
    /\ \E v \in VarNames : Becomes(with_variable(self, v))

WithValue ==
    /\ built
    /\ Len(values) < MaxValues
    /\ op' = "with_value"
    /\ \E e \in Expressions : Becomes(with_value(self, e))

\* mutate_variables hands out &mut Vec<String>: the caller may make it any vector
MutateVariables ==
    /\ built
    /\ op' = "mutate_variables"
    /\ \E vs \in SeqsUpTo(VarNames, MaxVariables) :
           Becomes([variables |-> vs, values |-> values])

\* mutate_values hands out &mut Vec<Expression>: the caller may make it any vector
MutateValues ==
    /\ built
    /\ op' = "mutate_values"
    /\ \E es \in SeqsUpTo(Expressions, MaxValues) :
           Becomes([variables |-> variables, values |-> es])

\* to_lua(&self, generator): the text is generated, the statement is only read
ToLua ==
    /\ built
    /\ output' = to_lua(self)
    /\ op' = "to_lua"
    /\ UNCHANGED <<built, variables, values>>
    /\ UNCHANGED codecVars

NextLua ==
    \/ New
    \/ FromVariable
    \/ WithVariable
    \/ WithValue
    \/ MutateVariables
    \/ MutateValues
    \/ ToLua

SpecLua == Init /\ [][NextLua]_vars

(***************************************************************************)
(* Properties of the codec                                                 *)
(***************************************************************************)
\* the decoding of the entry read last has ended with an instance, or with an error
EntryDecoded ==
    docs # <<>> /\ pc \in {"seq", "done", "encoded"} /\ result.tag # "Err" /\ Len(rules) = Len(docs)
EntryFailed == docs # <<>> /\ pc = "done" /\ result.tag = "Err"
EntryFinished == EntryDecoded \/ EntryFailed

\* the positions of the key k in the map document d
Positions(d, k) == {i \in 1..Len(d.entries) : d.entries[i].key = k}
RuleCount(d) == Cardinality(Positions(d, "rule"))
PropertyKeys(d) == {d.entries[i].key : i \in 1..Len(d.entries)} \ {"rule"}

\* position i of d holds a key that an earlier position holds too
Repeated(d, i) == \E j \in 1..(i - 1) : d.entries[j].key = d.entries[i].key

\* the value at position i of d is one its key accepts
ValueFits(d, i) ==
    IF d.entries[i].key = "rule" THEN d.entries[i].val.kind = "text"
    ELSE d.entries[i].val.kind \in {"text", "uint"}

\* the first j entries of d are accepted by the scan
Accepted(d, j) == \A i \in 1..j : ~Repeated(d, i) /\ ValueFits(d, i)

InvalidRuleName(name) == Custom(<<"invalid rule name: ", name>>)
DuplicateProperty(k) == Custom(<<"duplicate field ", k, " in rule object">>)

\* C1: round trip. For every instance obtained from the registry (the default stack,
\* or a decoded document), decoding the documents serialize produced succeeds and
\* yields instances with the same get_name() and serialize_to_properties().
C1_RoundTrip ==
    (replay /\ pc = "done" /\ \A i \in 1..Len(orig) : orig[i].kind = "RemoveEmptyDo")
        => /\ result.tag = "Ok"
           /\ Len(result.rules) = Len(orig)
           /\ \A i \in 1..Len(orig) :
                  /\ get_name(result.rules[i]) = get_name(orig[i])
                  /\ serialize_to_properties(result.rules[i]) = serialize_to_properties(orig[i])

C1_Witness ==
    /\ replay /\ pc = "done" /\ source = "document"
    /\ Len(orig) = 2 /\ result.tag = "Ok" /\ Len(result.rules) = 2

\* C2: the document form depends on serialize_to_properties() alone: no property gives
\* the bare name; k >= 1 properties give a map of k + 1 entries, "rule" bound to the
\* name, and each property exactly once with its value.
C2_Form ==
    /\ Len(encoded) = Len(orig)
    /\ \A i \in 1..Len(orig) :
           LET r == orig[i]
               d == encoded[i]
               props == serialize_to_properties(r)
               k == Cardinality(DOMAIN props)
           IN  /\ k = 0 => d = StrDoc(get_name(r))
               /\ k >= 1 =>
                      /\ d.kind = "map"
                      /\ d.len = k + 1
                      /\ Len(d.entries) = k + 1
                      /\ d.entries[1] = Entry("rule", Text(get_name(r)))
                      /\ \A key \in DOMAIN props :
                             \E j \in 2..(k + 1) :
                                 /\ d.entries[j] = Entry(key, SerializeValue(props[key]))
                                 /\ \A j2 \in 2..(k + 1) : d.entries[j2].key = key => j2 = j

C2_Witness ==
    /\ pc = "encoded" /\ Len(orig) = 1
    /\ Cardinality(DOMAIN serialize_to_properties(orig[1])) = 2
    /\ encoded[1].kind = "map" /\ Len(encoded[1].entries) = 3

\* C3 as stated: a map is decoded only if "rule" appears exactly once; every map
\* without "rule" fails with missing field "rule", every map with a second "rule"
\* fails with duplicate field "rule".
C3_Original ==
    (EntryFinished /\ doc.kind = "map")
        => /\ EntryDecoded => RuleCount(doc) = 1
           /\ RuleCount(doc) = 0 => EntryFailed /\ result.error = MissingField("rule")
           /\ RuleCount(doc) >= 2 => EntryFailed /\ result.error = DuplicateField("rule")

\* the position of the second "rule" key of d
SecondRule(d) ==
    CHOOSE i \in Positions(d, "rule") : Cardinality({j \in Positions(d, "rule") : j < i}) = 1

\* C3 amended: a map is decoded only if "rule" appears exactly once; a map without
\* "rule" whose keys are distinct and whose values are text or unsigned integers fails
\* with missing field "rule"; a map with a second "rule", every entry before it being
\* accepted, fails with duplicate field "rule"; no instance is returned.
C3_RuleOnce ==
    (EntryFinished /\ doc.kind = "map")
        => /\ EntryDecoded => RuleCount(doc) = 1
           /\ RuleCount(doc) # 1 => EntryFailed /\ result.rules = <<>>
           /\ (RuleCount(doc) = 0 /\ Accepted(doc, Len(doc.entries)))
                  => result.error = MissingField("rule")
           /\ (RuleCount(doc) >= 2 /\ Accepted(doc, SecondRule(doc) - 1))
                  => result.error = DuplicateField("rule")

C3_Witness ==
    /\ EntryFailed /\ doc.kind = "map" /\ RuleCount(doc) = 2
    /\ result.error = DuplicateField("rule") /\ DOMAIN properties # {}

\* a key other than "rule" that d holds more than once
RepeatedKeys(d) == {k \in PropertyKeys(d) : Cardinality(Positions(d, k)) > 1}

\* the properties of d, each key once, as configure should receive them
Collected(d) ==
    [k \in PropertyKeys(d) |->
        DeserializeValue(d.entries[CHOOSE i \in Positions(d, k) : TRUE].val).value]

\* C4 as stated: every map in which a key other than "rule" occurs more than once
\* fails with a duplicate-field error naming that key; configure receives every
\* distinct other key exactly once.
C4_Original ==
    /\ (EntryFinished /\ doc.kind = "map")
           => \A k \in RepeatedKeys(doc) :
                  /\ EntryFailed
                  /\ result.error \in {DuplicateField(k), DuplicateProperty(k)}
    /\ pc = "configure" => RepeatedKeys(doc) = {} /\ properties = Collected(doc)

\* C4 amended: a map in which a key other than "rule" occurs a second time with a text
\* or unsigned-integer value, every entry before it being accepted, fails with the
\* error "duplicate field <key> in rule object" and no instance; configure receives
\* every distinct other key exactly once, with its value.
C4_DuplicateProperty ==
    /\ (EntryFinished /\ doc.kind = "map")
           => \A i \in 1..Len(doc.entries) :
                  (/\ doc.entries[i].key # "rule"
                   /\ Repeated(doc, i)
                   /\ ValueFits(doc, i)
                   /\ Accepted(doc, i - 1))
                      => /\ EntryFailed
                         /\ result.rules = <<>>
                         /\ result.error = DuplicateProperty(doc.entries[i].key)
    /\ pc = "configure" => RepeatedKeys(doc) = {} /\ properties = Collected(doc)

C4_Witness ==
    /\ EntryFailed /\ doc.kind = "map" /\ rule_name.some
    /\ result.error = DuplicateProperty("a")

\* C5: a lookup by a name that is not registered fails with "invalid rule name" and the
\* name, for a bare text document and for the "rule" value of a map document; a lookup
\* by a registered name yields a default instance of that name.
C5_Lookup ==
    /\ (EntryFinished /\ doc.kind = "str")
           => IF doc.s = REMOVE_EMPTY_DO_RULE_NAME
                 THEN /\ EntryDecoded
                      /\ rules[Len(rules)] = RemoveEmptyDoDefault
                      /\ get_name(rules[Len(rules)]) = doc.s
                 ELSE EntryFailed /\ result.error = InvalidRuleName(doc.s)
    /\ pc = "configure" => rule = RemoveEmptyDoDefault /\ get_name(rule) = rule_name.v
    /\ (EntryFinished /\ doc.kind = "map" /\ pos = Len(doc.entries) /\ rule_name.some
            /\ rule_name.v # REMOVE_EMPTY_DO_RULE_NAME)
           => EntryFailed /\ result.error = InvalidRuleName(rule_name.v)

C5_Witness ==
    /\ EntryFailed /\ doc.kind = "map" /\ DOMAIN properties # {}
    /\ result.error = InvalidRuleName("not_a_real_rule")

\* the name a rule document asks for
DocName(d) == IF d.kind = "str" THEN d.s ELSE d.entries[CHOOSE i \in Positions(d, "rule") : TRUE].val.s

\* C6: decoding a rule list is all or nothing. An error ends it at the first failing
\* entry: the entries before it were decoded, the ones after it are not read, the
\* caller receives the error and no list. Without an error the caller receives one
\* instance per entry, in the order of the entries.
C6_AllOrNothing ==
    (source = "document" /\ pc = "done")
        => /\ result.tag \in {"Ok", "Err"}
           /\ result.tag = "Err" =>
                  /\ result.rules = <<>>
                  /\ result.error # NoError
                  /\ doc.kind = "str" => result.error = InvalidRuleName(doc.s)
                  /\ doc.kind = "other" => result.error = InvalidType("rule name or rule object")
                  /\ Len(docs) <= n
                  /\ Len(rules) = Len(docs) - 1
           /\ result.tag = "Ok" =>
                  /\ result.error = NoError
                  /\ Len(docs) = n
                  /\ Len(result.rules) = n
                  /\ \A i \in 1..n : get_name(result.rules[i]) = DocName(docs[i])

C6_Witness ==
    /\ source = "document" /\ pc = "done" /\ result.tag = "Err"
    /\ Len(rules) = 1 /\ Len(docs) = 2 /\ n > 2

\* C8: the default rule stack is not empty and the name of each of its instances
\* resolves in the registry, to an instance of that name.
C8_DefaultRules ==
    (source = "default" /\ ~replay)
        => /\ Len(result.rules) >= 1
           /\ result.rules = rules
           /\ \A i \in 1..Len(result.rules) :
                  LET r == from_str(get_name(result.rules[i]))
                  IN  r.ok /\ get_name(r.rule) = get_name(result.rules[i])

C8_Witness == source = "default" /\ pc = "done" /\ Len(result.rules) = 1

\* C9: while one rule document is decoded configure is called at most once, as the last
\* step: never for a bare text; for a map once, after every key was scanned without a
\* repeated or missing "rule" and after the lookup succeeded. So a duplicate or missing
\* field is reported rather than an invalid rule name, an invalid rule name rather than
\* a configuration error, and a configuration error ends the decoding with no instance.
C9_ConfigureLast ==
    /\ configured <= 1
    /\ (docs # <<>> /\ doc.kind # "map") => configured = 0
    /\ configured = 1 =>
           /\ doc.kind = "map"
           /\ pc \notin {"any", "map", "from_str", "configure"}
           /\ pos = Len(doc.entries)
           /\ RuleCount(doc) = 1 /\ RepeatedKeys(doc) = {}
           /\ rule_name.some /\ rule_name.v = REMOVE_EMPTY_DO_RULE_NAME
           /\ get_name(rule) = rule_name.v
           /\ properties = Collected(doc)
           /\ IF DOMAIN properties = {}
                 THEN EntryDecoded /\ rules[Len(rules)] = rule
                 ELSE /\ EntryFailed
                      /\ result.rules = <<>>
                      /\ \E k \in DOMAIN properties :
                             result.error = Custom(Display(UnexpectedProperty(k)))
    /\ (EntryDecoded /\ doc.kind = "map") => configured = 1
    /\ (EntryFailed /\ doc.kind = "map" /\ (RuleCount(doc) # 1 \/ RepeatedKeys(doc) # {}))
           => /\ configured = 0
              /\ \A nm \in Names : result.error # InvalidRuleName(nm)
              /\ \A k \in Keys : result.error # Custom(Display(UnexpectedProperty(k)))
    /\ (EntryFailed /\ doc.kind = "map" /\ RuleCount(doc) = 1 /\ Accepted(doc, Len(doc.entries))
            /\ DocName(doc) # REMOVE_EMPTY_DO_RULE_NAME)
           => configured = 0 /\ result.error = InvalidRuleName(DocName(doc))

C9_Witness ==
    /\ EntryFailed /\ doc.kind = "map" /\ configured = 1
    /\ Cardinality(DOMAIN properties) = 2

(***************************************************************************)
(* Properties of LocalAssignStatement                                      *)
(***************************************************************************)
NotSpace(t) == t # " "
\* the generated text without the spaces
Tokens(out) == SelectSeq(out, NotSpace)

Rendered ==
    (op = "to_lua" /\ Len(variables) >= 1)
        => LET nv == Len(variables)
               m == Len(values)
               t == Tokens(output)
           IN  /\ Len(t) = 2 * nv + (IF m > 0 THEN 2 * m ELSE 0)
               /\ t[1] = "local"
               /\ \A i \in 1..nv : t[2 * i] = variables[i]
               /\ \A i \in 1..(nv - 1) : t[2 * i + 1] = ","
               /\ m > 0 => /\ t[2 * nv + 1] = "="
                           /\ \A j \in 1..m : t[2 * nv + 2 * j] = (IF values[j] = "False" THEN "false" ELSE "true")
                           /\ \A j \in 1..(m - 1) : t[2 * nv + 2 * j + 1] = ","
               /\ m = 0 => \A i \in 1..Len(output) : output[i] # "="
               /\ (variables = <<"var">> /\ values = <<"False">>)
                      => output = <<"local", " ", "var", "=", "false">>
               /\ (variables = <<"var">> /\ values = <<>>)
                      => output = <<"local", " ", "var">>
               /\ (variables = <<"a", "b">> /\ values = <<>>)
                      => output = <<"local", " ", "a", ",", "b">>

\* C7: to_lua on n >= 1 variables and m >= 0 values emits local, the variables in order
\* with one comma between consecutive ones, and, if and only if m > 0, one = and the
\* values in order with one comma between consecutive ones; it leaves the statement
\* as it was.
C7_Render ==
    /\ []Rendered
    /\ [][op' = "to_lua" => variables' = variables /\ values' = values]_vars

C7_Witness ==
    /\ op = "to_lua" /\ Len(variables) = 2 /\ Len(values) = 2
    /\ output = <<"local", " ", "a", ",", "b", "=", "false", ",", "true">>

\* C10: after any sequence of the public operations (new, from_variable, with_variable,
\* with_value, mutate_variables, mutate_values) the variable sequence of the statement
\* is not empty, so that to_lua always emits a variable name after local.
C10_Original ==
    built => /\ Len(variables) >= 1
             /\ op = "to_lua" => Len(output) >= 3 /\ output[3] \in VarNames

====
